---- MODULE Spec2Model ----
(***************************************************************************)
(* The retirement calculator's simulation engine (the Simulation object):  *)
(* the five withdrawal strategies, the return generator and the lookup     *)
(* tables.  One behaviour is one call of a strategy function: Init is the  *)
(* state on entry to its year loop, each strategy action is one iteration  *)
(* of that loop, ReturnResult is its return statement.                     *)
(*                                                                         *)
(* Numbers.  Amounts of money are integers (whole currency units); a       *)
(* product or quotient of an amount is rounded to the nearest unit, the    *)
(* way the double arithmetic of the source rounds to the nearest double.   *)
(* Rates and percentages are exact fractions <<n, d>>; d = 0 encodes the   *)
(* non-finite doubles: <<1,0>> = Infinity, <<-1,0>> = -Infinity and        *)
(* <<0,0>> = NaN.                                                          *)
(***************************************************************************)
EXTENDS Integers, Sequences, FiniteSets, TLC

VARIABLES
    inputs,         \* the SimulationInputs object the strategy was called with
    strategy,       \* which of the five strategy functions is running
    deterministic,  \* the strategy call's second argument
    pc,             \* "loop" inside the year loop, "done" after the return
    i,              \* the loop counter
    portfolio,      \* let portfolio
    withdrawal,     \* let withdrawal (ConstantReal, Guardrails: carried over years)
    uncapped,       \* the year's target just before the ceiling (Math.min) was applied
    yearResults,    \* const yearResults = []
    ruined,         \* let ruined
    ruinAge,        \* let ruinAge
    result,         \* the returned object
    entropy,        \* number of randomNormal() calls made so far (the state of Math.random)
    previous,       \* what the previous call with these arguments returned
    calls,          \* number of calls of the strategy function begun so far
    lookups,        \* the last calls of a table function made on its own: argument(s), value
    variation       \* how the current call differs from the previous one, and that call's arguments

vars == <<inputs, strategy, deterministic, pc, i, portfolio, withdrawal, uncapped,
          yearResults, ruined, ruinAge, result, entropy, previous, calls, lookups,
          variation>>

----------------------------------------------------------------------------
(* Bounds of the model *)

MaxYears == 5
MaxDraws == 1
MaxAge == 101
MaxLen == 3

(* Values the inputs are drawn from *)
Strategies == {"ConstantReal", "ConstantPercent", "VPW", "Guardrails", "RMD"}
RetirementAges == {65}
Horizons == {-1, 0, MaxYears}
Portfolios == {0, 1000}
InflationRates == {0, 100}
OneTimeExpenses == {-20, 0, 20}
\* <<socialSecurity, ssStartAge - retirementAge>>
SocialSecurityPlans == {<<0, 1>>, <<30, -1>>, <<30, 1>>}
\* <<minSpending, maxSpending, startingWithdrawal>>
SpendingPlans == {<<0, 0, 0>>, <<60, 0, 0>>, <<0, 30, 0>>, <<60, 30, 0>>,
                  <<60, 80, 40>>, <<60, 80, 100>>, <<0, 0, 30>>, <<0, 0, 100>>}
\* <<expectedReturn, volatility, deterministic>>
Markets == {<<0, 0, TRUE>>, <<100, 100, TRUE>>, <<-100, 0, TRUE>>, <<0, 0, FALSE>>,
            <<0, 100, FALSE>>}
\* the values randomNormal() may return
ZValues == {-2, 0}
\* the ages lifeExpectancy is looked up for
Ages == -1..MaxAge
\* the values of the sequences percentile is applied to, and the percentiles asked for
SampleValues == {1, 2, 4}
Percents == {-10, 0, 10, 25, 50, 75, 90, 100, 150}

----------------------------------------------------------------------------
(* Arithmetic *)

null == -1
Infinity == 2147483647
NaN == <<0, 0>>

Max(a, b) == IF a >= b THEN a ELSE b
Min(a, b) == IF a <= b THEN a ELSE b

\* n/d rounded to the nearest integer (d > 0)
Round(n, d) == (2 * n + d) \div (2 * d)

\* amount * rate
MulRate(x, r) == Round(x * r[1], r[2])

RECURSIVE IntPow(_, _)
IntPow(b, n) == IF n = 0 THEN 1 ELSE b * IntPow(b, n - 1)

RECURSIVE Gcd(_, _)
Gcd(a, b) == IF b = 0 THEN a ELSE Gcd(b, a % b)

Abs(a) == IF a < 0 THEN -a ELSE a

\* a fraction in lowest terms with a positive denominator
Frac(n, d) ==
    LET g == Gcd(Abs(n), Abs(d))
    IN  IF d > 0 THEN <<n \div g, d \div g>> ELSE <<(-n) \div g, (-d) \div g>>

\* Math.pow(rate, n) for an integer n >= 0
Pow(r, n) == <<IntPow(r[1], n), IntPow(r[2], n)>>

\* a / b * 100 as a double: a fraction, or Infinity, -Infinity, NaN when b = 0
RateOf(a, b) ==
    IF b = 0
    THEN (IF a > 0 THEN <<1, 0>> ELSE IF a < 0 THEN <<-1, 0>> ELSE NaN)
    ELSE IF b > 0 THEN <<a * 100, b>> ELSE <<-(a * 100), -b>>

\* rate > k and rate < k as doubles compare (false for NaN)
RateGt(r, k) == IF r[2] = 0 THEN r[1] > 0 ELSE r[1] > k * r[2]
RateLt(r, k) == IF r[2] = 0 THEN r[1] < 0 ELSE r[1] < k * r[2]

\* inputs.f || 0
OrZero(in, f) == IF f \in DOMAIN in THEN in[f] ELSE 0

\* inputs.f && inputs.f > 0
Positive(in, f) == f \in DOMAIN in /\ in[f] > 0

----------------------------------------------------------------------------
(* Return source and lookup tables *)

\* faulty variant: the deterministic flag ignored
generateReturn_alwaysRandom(mean, volatility, det, z) == <<mean + z * volatility, 100>>

\* faulty variant: the deterministic mode returns no growth instead of the mean
generateReturn_meanDropped(mean, volatility, det, z) ==
    IF det THEN <<0, 100>> ELSE <<mean + z * volatility, 100>>

\* generateReturn(mean, volatility, deterministic); z is the value randomNormal()
\* returns when it is called.  The result is the fraction returnPct.
generateReturn(mean, volatility, det, z) ==
    IF det THEN <<mean, 100>> ELSE <<mean + z * volatility, 100>>

\* how many times generateReturn calls randomNormal()
randomNormalCalls(det) == IF det THEN 0 ELSE 1

\* faulty variant: the last bracket without its floor
lifeExpectancy_noFloor(age) ==
    IF age < 60 THEN 95 - age
    ELSE IF age < 70 THEN 90 - age
    ELSE IF age < 80 THEN 87 - age
    ELSE IF age < 90 THEN 94 - age
    ELSE 100 - age

lifeExpectancy(age) ==
    IF age < 60 THEN 95 - age
    ELSE IF age < 70 THEN 90 - age
    ELSE IF age < 80 THEN 87 - age
    ELSE IF age < 90 THEN 94 - age
    ELSE Max(2, 100 - age)

\* the percentage, as a fraction
vpwPercentage(yearsRemaining, stockAllocation) ==
    IF yearsRemaining >= 30 THEN <<300 + stockAllocation * 2, 100>>
    ELSE IF yearsRemaining >= 25 THEN <<350 + stockAllocation * 2, 100>>
    ELSE IF yearsRemaining >= 20 THEN <<4000 + stockAllocation * 25, 1000>>
    ELSE IF yearsRemaining >= 15 THEN <<500 + stockAllocation * 3, 100>>
    ELSE IF yearsRemaining >= 10 THEN <<6500 + stockAllocation * 35, 1000>>
    ELSE IF yearsRemaining >= 5 THEN <<900 + stockAllocation * 4, 100>>
    ELSE <<Min(100, 20 + yearsRemaining * 2), 1>>

\* faulty variant: the index scaled by the length instead of the last position
percentile_byLength(sorted, p) ==
    IF Len(sorted) = 0 THEN <<0, 100>>
    ELSE LET index == p * Len(sorted)
             lower == index \div 100
             upper == IF index % 100 = 0 THEN lower ELSE lower + 1
             weight == index - 100 * lower
         IN  IF lower < 0 \/ upper > Len(sorted) - 1 THEN NaN
             ELSE <<sorted[lower + 1] * (100 - weight) + sorted[upper + 1] * weight, 100>>

\* faulty variant: the two interpolation weights exchanged
percentile_weightsSwapped(sorted, p) ==
    IF Len(sorted) = 0 THEN <<0, 100>>
    ELSE LET index == p * (Len(sorted) - 1)
             lower == index \div 100
             upper == IF index % 100 = 0 THEN lower ELSE lower + 1
             weight == index - 100 * lower
         IN  IF lower < 0 \/ upper > Len(sorted) - 1 THEN NaN
             ELSE <<sorted[lower + 1] * weight + sorted[upper + 1] * (100 - weight), 100>>

\* percentile(sorted, p), as a fraction over 100.  index and weight are kept in
\* hundredths; an index outside the array reads undefined and the sum is NaN.
percentile(sorted, p) ==
    IF Len(sorted) = 0 THEN <<0, 100>>
    ELSE LET index == p * (Len(sorted) - 1)
             lower == index \div 100
             upper == IF index % 100 = 0 THEN lower ELSE lower + 1
             weight == index - 100 * lower
         IN  IF lower < 0 \/ upper > Len(sorted) - 1 THEN NaN
             ELSE <<sorted[lower + 1] * (100 - weight) + sorted[upper + 1] * weight, 100>>

----------------------------------------------------------------------------
(* The parts the five year loops share *)

\* faulty variant: the horizon taken as a distance
years_abs(in) == Abs(in.planningAge - in.retirementAge)

years(in) == in.planningAge - in.retirementAge

inflationMultiplier(in) == Frac(100 + in.inflationRate, 100)

\* faulty variant: ages counted from retirementAge + 1
ageOf_offByOne(in, k) == in.retirementAge + k + 1

ageOf(in, k) == in.retirementAge + k

isExpenseYear(k) == (k + 1) % 5 = 0

oneTimeExpenseThisYear(in, k) ==
    IF isExpenseYear(k)
    THEN MulRate(OrZero(in, "oneTimeExpense"), Pow(inflationMultiplier(in), k))
    ELSE 0

\* faulty variant: the benefit is not inflation-indexed
ssOf_noCola(in, age) == IF age >= in.ssStartAge THEN in.socialSecurity ELSE 0

ssOf(in, age) ==
    LET ssYearsReceiving == Max(0, age - in.ssStartAge)
    IN  IF age >= in.ssStartAge
        THEN MulRate(in.socialSecurity, Pow(inflationMultiplier(in), ssYearsReceiving))
        ELSE 0

\* faulty variant: surplus Social Security pays for the one-time expense
netWithdrawalOf_surplusSpent(target, ss, expense) == Max(0, target - ss + expense)

\* faulty variant: Social Security above the target is paid into the portfolio
netWithdrawalOf_unfloored(target, ss, expense) == target - ss + expense

\* faulty variant: Social Security added to the amount drawn
netWithdrawalOf_ssAdded(target, ss, expense) == target + ss + expense

netWithdrawalOf(target, ss, expense) == Max(0, target - ss) + expense

inflationAdjustedMinSpending(in, k) ==
    MulRate(OrZero(in, "minSpending"), Pow(inflationMultiplier(in), k))

inflationAdjustedMaxSpending(in, k) ==
    IF OrZero(in, "maxSpending") > 0
    THEN MulRate(OrZero(in, "maxSpending"), Pow(inflationMultiplier(in), k))
    ELSE Infinity

\* faulty variant: the overdraft is carried into the return
clampOverdraft_missing(p) == p

\* if (portfolio < 0) portfolio = 0
clampOverdraft(p) == IF p < 0 THEN 0 ELSE p

\* portfolio *= (1 + returnPct)
applyReturn(p, returnPct) == MulRate(p, <<returnPct[2] + returnPct[1], returnPct[2]>>)

\* the ruined flag of a year's record
recordRuined(p) == p <= 0

\* faulty variant: a depletion by the year's return is not noticed
depletedAfterReturn_forgotten(p) == FALSE

\* if (portfolio <= 0 && !ruined) after the record is pushed
depletedAfterReturn(p) == p <= 0

\* faulty variant: the carried withdrawal is written back into the object passed in
inputsAfterYear_scratch(in, carried) == [in EXCEPT !.startingWithdrawal = carried]

\* the inputs object after an iteration: no statement of a loop assigns to it
inputsAfterYear(in, carried) == in

\* The common tail of an iteration: withdraw, clamp, apply the return, push the
\* record (extra holds the strategy's own fields), mark ruin.
Advance(target, ss, extra, carried, z) ==
    LET age == ageOf(inputs, i)
        portfolioStart == portfolio
        expense == oneTimeExpenseThisYear(inputs, i)
        netWithdrawal == netWithdrawalOf(target, ss, expense)
        afterWithdrawal == portfolio - netWithdrawal
        overdrawn == afterWithdrawal < 0
        ruined1 == ruined \/ overdrawn
        ruinAge1 == IF overdrawn /\ ~ruined THEN age ELSE ruinAge
        returnPct == generateReturn(inputs.expectedReturn, inputs.volatility,
                                    deterministic, z)
        portfolioEnd == applyReturn(clampOverdraft(afterWithdrawal), returnPct)
        common == [year |-> i, age |-> age, portfolioStart |-> portfolioStart,
                   returnPct |-> returnPct[1], withdrawal |-> netWithdrawal,
                   portfolioEnd |-> portfolioEnd,
                   ruined |-> recordRuined(portfolioEnd)]
    IN  /\ portfolio' = portfolioEnd
        /\ yearResults' = Append(yearResults, common @@ extra)
        /\ ruined' = (ruined1 \/ depletedAfterReturn(portfolioEnd))
        /\ ruinAge' = IF depletedAfterReturn(portfolioEnd) /\ ~ruined1 THEN age ELSE ruinAge1
        /\ withdrawal' = carried
        /\ entropy' = entropy + randomNormalCalls(deterministic)
        /\ i' = i + 1
        /\ inputs' = inputsAfterYear(inputs, carried)
        /\ UNCHANGED <<strategy, deterministic, pc, result, previous, calls, lookups,
                       variation>>

InLoop(s) == pc = "loop" /\ strategy = s /\ i < years(inputs)

----------------------------------------------------------------------------
(* Entry of a strategy function: the statements before its year loop *)

\* faulty variant: the 4.5% rule used even when a startingWithdrawal is given
initialWithdrawalConstantReal_noOverride(in) ==
    LET initialRate == <<45, 1000>>
        baseWithdrawal == MulRate(in.startingPortfolio, initialRate)
        floored == Max(baseWithdrawal, OrZero(in, "minSpending"))
    IN  IF Positive(in, "maxSpending") THEN Min(floored, in.maxSpending) ELSE floored

\* strategyConstantReal: initialWithdrawal
initialWithdrawalConstantReal(in) ==
    LET initialRate == <<45, 1000>>
        baseWithdrawal == IF Positive(in, "startingWithdrawal")
                          THEN in.startingWithdrawal
                          ELSE MulRate(in.startingPortfolio, initialRate)
        floored == Max(baseWithdrawal, OrZero(in, "minSpending"))
    IN  IF Positive(in, "maxSpending") THEN Min(floored, in.maxSpending) ELSE floored

\* strategyGuardrails: withdrawal before the loop
initialWithdrawalGuardrails(in) ==
    LET initialRate == <<5, 100>>
        baseMinSpending == OrZero(in, "minSpending")
        baseMaxSpending == OrZero(in, "maxSpending")
        baseWithdrawal == IF Positive(in, "startingWithdrawal")
                          THEN in.startingWithdrawal
                          ELSE MulRate(in.startingPortfolio, initialRate)
        floored == Max(baseWithdrawal, baseMinSpending)
    IN  IF baseMaxSpending > 0 THEN Min(floored, baseMaxSpending) ELSE floored

InputsOf(ra, h, p, inf, soc, ote, plan, mkt) ==
    [retirementAge |-> ra, planningAge |-> ra + h, startingPortfolio |-> p,
     expectedReturn |-> mkt[1], volatility |-> mkt[2], inflationRate |-> inf,
     socialSecurity |-> soc[1], ssStartAge |-> ra + soc[2], oneTimeExpense |-> ote,
     minSpending |-> plan[1], maxSpending |-> plan[2], startingWithdrawal |-> plan[3]]

NoResult == [years |-> <<>>, finalBalance |-> 0, totalWithdrawals |-> 0,
             ruined |-> FALSE, ruinAge |-> null]

\* no earlier call to compare with
NoVariation == [kind |-> "none"]

\* let withdrawal on entry to the year loop of strategy s called with in
entryWithdrawal(s, in) ==
    CASE s = "ConstantReal" -> initialWithdrawalConstantReal(in)
      [] s = "Guardrails" -> initialWithdrawalGuardrails(in)
      [] OTHER -> 0

Init ==
    /\ \E ra \in RetirementAges, h \in Horizons, p \in Portfolios, inf \in InflationRates,
          soc \in SocialSecurityPlans, ote \in OneTimeExpenses, plan \in SpendingPlans,
          mkt \in Markets :
            /\ inputs = InputsOf(ra, h, p, inf, soc, ote, plan, mkt)
            /\ deterministic = mkt[3]
    /\ strategy \in Strategies
    /\ pc = "loop"
    /\ i = 0
    /\ portfolio = inputs.startingPortfolio
    /\ withdrawal = entryWithdrawal(strategy, inputs)
    /\ uncapped = 0
    /\ yearResults = <<>>
    /\ ruined = FALSE
    /\ ruinAge = null
    /\ result = NoResult
    /\ entropy = 0
    /\ previous = NoResult
    /\ calls = 1
    /\ lookups = <<>>
    /\ variation = NoVariation

----------------------------------------------------------------------------
(* One iteration of each strategy's year loop *)

\* faulty variant: the ceiling applied before the floor
ceilingThenFloor(target, floor, ceiling) == Max(Min(target, ceiling), floor)

\* Math.max(target, floor) then Math.min(.., ceiling)
floorThenCeiling(target, floor, ceiling) == Min(Max(target, floor), ceiling)

\* faulty variant: the ceiling inside the loop is not inflation-indexed
capConstantReal_flat(w, in, k) ==
    LET baseMaxSpending == OrZero(in, "maxSpending")
    IN  IF baseMaxSpending > 0 THEN Min(w, baseMaxSpending) ELSE w

\* strategyConstantReal re-applies only the ceiling inside its loop
capConstantReal(w, in, k) ==
    LET baseMaxSpending == OrZero(in, "maxSpending")
    IN  IF baseMaxSpending > 0
        THEN Min(w, MulRate(baseMaxSpending, Pow(inflationMultiplier(in), k)))
        ELSE w

\* faulty variant: the carried withdrawal is not inflation-indexed
inflate_forgotten(w, in) == w

\* withdrawal *= inflationMultiplier
inflate(w, in) == MulRate(w, inflationMultiplier(in))

strategyConstantReal ==
    /\ InLoop("ConstantReal")
    /\ \E z \in ZValues :
        LET capped == capConstantReal(withdrawal, inputs, i)
            ss == ssOf(inputs, ageOf(inputs, i))
        IN  /\ uncapped' = withdrawal
            /\ Advance(capped, ss, [ssReceived |-> ss, baseWithdrawal |-> capped],
                       inflate(capped, inputs), z)

\* faulty variant: startingWithdrawal ignored in year 1
dynamicTarget_noOverride(formula) == formula

\* faulty variant: startingWithdrawal kept as the target in every year
dynamicTarget_everyYear(formula) ==
    IF OrZero(inputs, "startingWithdrawal") > 0
    THEN OrZero(inputs, "startingWithdrawal")
    ELSE formula

\* the target of a strategy that recomputes it from the portfolio every year
dynamicTarget(formula) ==
    IF i = 0 /\ OrZero(inputs, "startingWithdrawal") > 0
    THEN OrZero(inputs, "startingWithdrawal")
    ELSE formula

strategyConstantPercent ==
    /\ InLoop("ConstantPercent")
    /\ \E z \in ZValues :
        LET withdrawalRate == <<4, 100>>
            raw == dynamicTarget(MulRate(portfolio, withdrawalRate))
            floored == Max(raw, inflationAdjustedMinSpending(inputs, i))
            targetWithdrawal == floorThenCeiling(raw, inflationAdjustedMinSpending(inputs, i),
                                                 inflationAdjustedMaxSpending(inputs, i))
            ss == ssOf(inputs, ageOf(inputs, i))
        IN  /\ uncapped' = floored
            /\ Advance(targetWithdrawal, ss, [targetWithdrawal |-> targetWithdrawal],
                       withdrawal, z)

strategyVPW ==
    /\ InLoop("VPW")
    /\ \E z \in ZValues :
        LET yearsRemaining == inputs.planningAge - ageOf(inputs, i)
            vpwPct == vpwPercentage(yearsRemaining, 60)
            vpwWithdrawal == MulRate(portfolio, <<vpwPct[1], vpwPct[2] * 100>>)
            raw == dynamicTarget(vpwWithdrawal)
            floored == Max(raw, inflationAdjustedMinSpending(inputs, i))
            targetWithdrawal == floorThenCeiling(raw, inflationAdjustedMinSpending(inputs, i),
                                                 inflationAdjustedMaxSpending(inputs, i))
            ss == ssOf(inputs, ageOf(inputs, i))
        IN  /\ uncapped' = floored
            /\ Advance(targetWithdrawal, ss,
                       [vpwPct |-> vpwPct, targetWithdrawal |-> targetWithdrawal],
                       withdrawal, z)

upperGuardrail == 6
lowerGuardrail == 4

\* faulty variant: the cut above the upper guardrail is missing
guardrailAdjust_noCut(w, currentRate, skip, p) ==
    IF skip THEN w
    ELSE IF RateLt(currentRate, lowerGuardrail) /\ p > 0 THEN MulRate(w, <<11, 10>>)
    ELSE w

\* the guardrail test on the carried withdrawal
guardrailAdjust(w, currentRate, skip, p) ==
    IF skip THEN w
    ELSE IF RateGt(currentRate, upperGuardrail) THEN MulRate(w, <<9, 10>>)
    ELSE IF RateLt(currentRate, lowerGuardrail) /\ p > 0 THEN MulRate(w, <<11, 10>>)
    ELSE w

\* faulty variant: the exemption extended to every year of the run
skipGuardrailsYear1_everyYear(in, k) == Positive(in, "startingWithdrawal")

skipGuardrailsYear1(in, k) == k = 0 /\ Positive(in, "startingWithdrawal")

strategyGuardrails ==
    /\ InLoop("Guardrails")
    /\ \E z \in ZValues :
        LET portfolioStart == portfolio
            currentRate == RateOf(withdrawal, portfolioStart)
            adjusted == guardrailAdjust(withdrawal, currentRate,
                                        skipGuardrailsYear1(inputs, i), portfolio)
            floored == Max(adjusted, inflationAdjustedMinSpending(inputs, i))
            capped == floorThenCeiling(adjusted, inflationAdjustedMinSpending(inputs, i),
                                       inflationAdjustedMaxSpending(inputs, i))
            ss == ssOf(inputs, ageOf(inputs, i))
        IN  /\ uncapped' = floored
            /\ Advance(capped, ss, [baseWithdrawal |-> capped, currentRate |-> currentRate],
                       inflate(capped, inputs), z)

strategyRMD ==
    /\ InLoop("RMD")
    /\ \E z \in ZValues :
        LET lifeExp == lifeExpectancy(ageOf(inputs, i))
            rmdWithdrawal == Round(portfolio, lifeExp)
            raw == dynamicTarget(rmdWithdrawal)
            floored == Max(raw, inflationAdjustedMinSpending(inputs, i))
            targetWithdrawal == floorThenCeiling(raw, inflationAdjustedMinSpending(inputs, i),
                                                 inflationAdjustedMaxSpending(inputs, i))
            ss == ssOf(inputs, ageOf(inputs, i))
        IN  /\ uncapped' = floored
            /\ Advance(targetWithdrawal, ss,
                       [lifeExp |-> lifeExp, rmdWithdrawal |-> rmdWithdrawal,
                        targetWithdrawal |-> targetWithdrawal],
                       withdrawal, z)

RECURSIVE SumWithdrawals(_)
SumWithdrawals(ys) ==
    IF ys = <<>> THEN 0 ELSE SumWithdrawals(SubSeq(ys, 1, Len(ys) - 1)) + ys[Len(ys)].withdrawal

\* the return statement of a strategy function
ReturnResult ==
    /\ pc = "loop"
    /\ ~(i < years(inputs))
    /\ pc' = "done"
    /\ result' = [years |-> yearResults, finalBalance |-> portfolio,
                  totalWithdrawals |-> SumWithdrawals(yearResults),
                  ruined |-> ruined, ruinAge |-> ruinAge]
    /\ UNCHANGED <<inputs, strategy, deterministic, i, portfolio, withdrawal, uncapped,
                   yearResults, ruined, ruinAge, entropy, previous, calls, lookups,
                   variation>>

\* Some other caller draws a normal deviate between the two calls of a deterministic
\* projection (a Monte Carlo run, a test): the only state the engine shares with it
\* is Math.random's.
OtherDraw ==
    /\ pc = "done"
    /\ deterministic
    /\ calls = 1
    /\ entropy < MaxDraws
    /\ entropy' = entropy + 1
    /\ UNCHANGED <<inputs, strategy, deterministic, pc, i, portfolio, withdrawal, uncapped,
                   yearResults, ruined, ruinAge, result, previous, calls, lookups,
                   variation>>

\* The caller repeats a deterministic projection once, with the same arguments.
Rerun ==
    /\ pc = "done"
    /\ deterministic
    /\ calls = 1
    /\ calls' = calls + 1
    /\ previous' = result
    /\ pc' = "loop"
    /\ i' = 0
    /\ portfolio' = inputs.startingPortfolio
    /\ withdrawal' = entryWithdrawal(strategy, inputs)
    /\ uncapped' = 0
    /\ yearResults' = <<>>
    /\ ruined' = FALSE
    /\ ruinAge' = null
    /\ UNCHANGED <<inputs, strategy, deterministic, result, entropy, lookups, variation>>

Next ==
    \/ strategyConstantReal
    \/ strategyConstantPercent
    \/ strategyVPW
    \/ strategyGuardrails
    \/ strategyRMD
    \/ ReturnResult
    \/ OtherDraw
    \/ Rerun

Spec == Init /\ [][Next]_vars

----------------------------------------------------------------------------
(* The table functions called on their own, as the unit tests and the Monte Carlo
   aggregation call them: no strategy run is in progress. *)

\* the ascending sequences of length n over SampleValues
RECURSIVE Ascending(_)
Ascending(n) ==
    IF n = 0 THEN {<<>>}
    ELSE UNION {{Append(q, v) : v \in {x \in SampleValues : n = 1 \/ x >= q[n - 1]}} :
                q \in Ascending(n - 1)}

SortedInputs == UNION {Ascending(n) : n \in 0..MaxLen} \cup {[k \in 1..10 |-> k]}

\* keep the call and, when it is of the same function, the one before it
remember(fn, args, ret) ==
    LET this == [fn |-> fn, args |-> args, ret |-> ret]
        n == Len(lookups)
    IN  lookups' = IF n > 0 /\ lookups[n].fn = fn THEN <<lookups[n], this>> ELSE <<this>>

callLifeExpectancy ==
    /\ pc = "idle"
    /\ \E age \in Ages : remember("lifeExpectancy", <<age>>, lifeExpectancy(age))
    /\ UNCHANGED <<inputs, strategy, deterministic, pc, i, portfolio, withdrawal, uncapped,
                   yearResults, ruined, ruinAge, result, entropy, previous, calls,
                   variation>>

\* a caller asks for one or more percentiles of the array it has sorted
callPercentile ==
    /\ pc = "idle"
    /\ \E sorted \in IF lookups # <<>> /\ lookups[Len(lookups)].fn = "percentile"
                      THEN {lookups[Len(lookups)].args[1]}
                      ELSE SortedInputs,
          p \in Percents :
          remember("percentile", <<sorted, p>>, percentile(sorted, p))
    /\ UNCHANGED <<inputs, strategy, deterministic, pc, i, portfolio, withdrawal, uncapped,
                   yearResults, ruined, ruinAge, result, entropy, previous, calls,
                   variation>>

LookupInit ==
    /\ pc = "idle"
    /\ lookups = <<>>
    /\ inputs = InputsOf(65, 0, 0, 0, <<0, 0>>, 0, <<0, 0, 0>>, <<0, 0, TRUE>>)
    /\ strategy = "ConstantReal"
    /\ deterministic = TRUE
    /\ i = 0
    /\ portfolio = 0
    /\ withdrawal = 0
    /\ uncapped = 0
    /\ yearResults = <<>>
    /\ ruined = FALSE
    /\ ruinAge = null
    /\ result = NoResult
    /\ entropy = 0
    /\ previous = NoResult
    /\ calls = 0
    /\ variation = NoVariation

LookupNext ==
    \/ callLifeExpectancy
    \/ callPercentile

LookupSpec == LookupInit /\ [][LookupNext]_vars

----------------------------------------------------------------------------
(* Two calls of a strategy function compared, as the tests do: the second call
   differs from the first in one argument only. *)

\* <<minSpending, maxSpending, startingWithdrawal>>, negative values included
PairPlans == {<<0, 0, 0>>, <<60, 0, 0>>, <<-60, 0, 0>>, <<0, -30, 0>>, <<0, 0, -40>>,
              <<0, 0, 40>>, <<60, 80, 40>>}
PairExpenses == {-20, 0, 20}
PairSocialSecurity == {<<0, 1>>, <<30, 1>>}
\* <<expectedReturn, volatility, deterministic>> with the same return in every year
PairMarkets == {<<0, 0, TRUE>>, <<-50, 0, TRUE>>, <<-200, 0, TRUE>>, <<100, 0, FALSE>>}
\* a market whose drawn returns differ from year to year
VolatileMarkets == {<<0, 100, FALSE>>}
\* the fields left out of the inputs object
Omissions == {{}, {"oneTimeExpense", "maxSpending"}, {"minSpending", "startingWithdrawal"}}
\* the fields the code reads through (inputs.f || 0) or (inputs.f && inputs.f > 0)
NormalisedFields == {"startingWithdrawal", "minSpending", "maxSpending", "oneTimeExpense"}
SmallerPortfolios == {1000}
LargerPortfolios == {3000}

\* the inputs object without the fields fs
Without(in, fs) == [f \in (DOMAIN in) \ fs |-> in[f]]

\* the inputs object with field f set to v
With(in, f, v) == [g \in (DOMAIN in) \cup {f} |-> IF g = f THEN v ELSE in[g]]

PairInit ==
    /\ \/ \E ra \in RetirementAges, p \in SmallerPortfolios, inf \in InflationRates,
             soc \in PairSocialSecurity, ote \in PairExpenses, plan \in PairPlans,
             mkt \in PairMarkets, fs \in Omissions :
               /\ inputs = Without(InputsOf(ra, MaxYears, p, inf, soc, ote, plan, mkt), fs)
               /\ deterministic = mkt[3]
               /\ strategy \in Strategies
       \/ \E ra \in RetirementAges, p \in SmallerPortfolios, inf \in InflationRates,
             soc \in PairSocialSecurity, mkt \in VolatileMarkets :
               /\ inputs = InputsOf(ra, MaxYears, p, inf, soc, 0, <<0, 0, 40>>, mkt)
               /\ deterministic = mkt[3]
               /\ strategy = "ConstantReal"
    /\ pc = "loop"
    /\ i = 0
    /\ portfolio = inputs.startingPortfolio
    /\ withdrawal = entryWithdrawal(strategy, inputs)
    /\ uncapped = 0
    /\ yearResults = <<>>
    /\ ruined = FALSE
    /\ ruinAge = null
    /\ result = NoResult
    /\ entropy = 0
    /\ previous = NoResult
    /\ calls = 1
    /\ lookups = <<>>
    /\ variation = NoVariation

\* the second call: strategy(in, det), after the first one has returned
callAgain(kind, in, det) ==
    /\ pc = "done"
    /\ calls = 1
    /\ calls' = calls + 1
    /\ previous' = result
    /\ variation' = [kind |-> kind, inputs |-> inputs, deterministic |-> deterministic]
    /\ inputs' = in
    /\ deterministic' = det
    /\ pc' = "loop"
    /\ i' = 0
    /\ portfolio' = in.startingPortfolio
    /\ withdrawal' = entryWithdrawal(strategy, in)
    /\ uncapped' = 0
    /\ yearResults' = <<>>
    /\ ruined' = FALSE
    /\ ruinAge' = null
    /\ UNCHANGED <<strategy, result, entropy, lookups>>

\* { ...inputs, startingPortfolio: larger } passed to strategyConstantReal
callWithLargerPortfolio ==
    /\ strategy = "ConstantReal"
    /\ \E p \in LargerPortfolios :
        /\ p > inputs.startingPortfolio
        /\ callAgain("startingPortfolio", With(inputs, "startingPortfolio", p), deterministic)

\* { ...inputs, f: 0 } for a field f that was missing or negative
callWithFieldZero ==
    \E f \in NormalisedFields :
        /\ IF f \in DOMAIN inputs THEN inputs[f] < 0 ELSE TRUE
        /\ callAgain(f, With(inputs, f, 0), deterministic)

\* the same inputs with deterministic = true, after a stochastic call with volatility 0
callDeterministic ==
    /\ ~deterministic
    /\ inputs.volatility = 0
    /\ callAgain("deterministic", inputs, TRUE)

PairNext ==
    \/ strategyConstantReal
    \/ strategyConstantPercent
    \/ strategyVPW
    \/ strategyGuardrails
    \/ strategyRMD
    \/ ReturnResult
    \/ callWithLargerPortfolio
    \/ callWithFieldZero
    \/ callDeterministic

PairSpec == PairInit /\ [][PairNext]_vars

----------------------------------------------------------------------------
(* Properties *)

\* the indices of the records pushed so far
Recorded == 1..Len(yearResults)

\* the year's withdrawal target as its record reports it
Target(rec) ==
    IF strategy \in {"ConstantReal", "Guardrails"} THEN rec.baseWithdrawal
    ELSE rec.targetWithdrawal

Done == pc = "done"

\* C1: in every run of every strategy the portfolioEnd of every YearRecord is >= 0
\* and the result's finalBalance is >= 0.
C1_PortfolioNeverNegative ==
    /\ \A k \in Recorded : yearResults[k].portfolioEnd >= 0
    /\ Done => result.finalBalance >= 0

\* C2: in every run of every strategy the withdrawal field of every YearRecord is >= 0.
C2_WithdrawalNeverNegative ==
    \A k \in Recorded : yearResults[k].withdrawal >= 0

\* C3: ruin is sticky: once a YearRecord reports ruined, every later YearRecord of the
\* run reports ruined too, and ruinAge is the age of the first ruined year.
C3_RuinSticky ==
    /\ \A j \in Recorded : \A k \in Recorded :
          (j < k /\ yearResults[j].ruined) => yearResults[k].ruined
    /\ \A k \in Recorded :
          (yearResults[k].ruined /\ \A j \in 1..(k - 1) : ~yearResults[j].ruined)
              => ruinAge = yearResults[k].age

\* C4: a deterministic run with expectedReturn = 0, inflationRate = 0 and
\* socialSecurity = 0 returns totalWithdrawals + finalBalance = startingPortfolio.
ZeroGrowth ==
    /\ deterministic
    /\ inputs.expectedReturn = 0
    /\ inputs.inflationRate = 0
    /\ inputs.socialSecurity = 0

C4_Conservation ==
    (Done /\ ZeroGrowth)
        => result.totalWithdrawals + result.finalBalance = inputs.startingPortfolio

\* C5: a run with planningAge > retirementAge produces exactly
\* planningAge - retirementAge YearRecords; record k (0-based) has year = k and
\* age = retirementAge + k.
C5_YearCountAndAges ==
    /\ \A k \in Recorded :
          /\ yearResults[k].year = k - 1
          /\ yearResults[k].age = inputs.retirementAge + (k - 1)
    /\ (Done /\ inputs.planningAge > inputs.retirementAge)
          => /\ Len(result.years) = inputs.planningAge - inputs.retirementAge
             /\ result.years = yearResults

C5_Witness ==
    /\ Done
    /\ inputs.planningAge > inputs.retirementAge
    /\ Len(result.years) >= 5

\* C6: when planningAge <= retirementAge the run completes and returns an empty
\* record sequence, finalBalance = startingPortfolio, totalWithdrawals = 0,
\* ruined = false and ruinAge = none, whatever the other inputs are.
Degenerate == inputs.planningAge <= inputs.retirementAge

C6_DegenerateHorizon ==
    Degenerate =>
        /\ pc = "loop" => ENABLED ReturnResult
        /\ Done => result = [years |-> <<>>,
                             finalBalance |-> inputs.startingPortfolio,
                             totalWithdrawals |-> 0,
                             ruined |-> FALSE,
                             ruinAge |-> null]

C6_Witness ==
    /\ Done
    /\ inputs.planningAge < inputs.retirementAge
    /\ inputs.startingPortfolio = 0
    /\ inputs.minSpending > 0
    /\ result.years = <<>>

\* C7: deterministic mode consumes no randomness: with deterministic = true every
\* YearRecord's return is expectedReturn whatever the volatility, no normal deviate is
\* drawn during the run, and a second deterministic run on the same inputs returns
\* the same result whatever was drawn in between.
C7_ReturnsAreTheMean ==
    deterministic =>
        /\ \A k \in Recorded : yearResults[k].returnPct = inputs.expectedReturn
        /\ (Done /\ calls = 2) => result = previous

C7_NoDrawInRun == (deterministic /\ pc = "loop") => entropy' = entropy

C7_DeterministicMode == [](C7_ReturnsAreTheMean) /\ [][C7_NoDrawInRun]_vars

C7_Witness ==
    /\ Done
    /\ deterministic
    /\ calls = 2
    /\ entropy > 0
    /\ inputs.volatility > 0
    /\ Len(result.years) >= 5
    /\ result.finalBalance > inputs.startingPortfolio

\* C8: ceiling wins: when maxSpending > 0 every year's withdrawal target is at most
\* maxSpending * (1 + inflationRate/100)^i, also when minSpending > maxSpending; when
\* maxSpending = 0 the ceiling changes nothing.
CeilingOf(k) == MulRate(inputs.maxSpending, Pow(inflationMultiplier(inputs), k - 1))

FloorOf(k) == MulRate(inputs.minSpending, Pow(inflationMultiplier(inputs), k - 1))

C8_CeilingWins ==
    /\ inputs.maxSpending > 0 => \A k \in Recorded : Target(yearResults[k]) <= CeilingOf(k)
    /\ (inputs.maxSpending = 0 /\ yearResults # <<>>)
          => Target(yearResults[Len(yearResults)]) = uncapped

C8_Witness ==
    /\ inputs.maxSpending > 0
    /\ inputs.minSpending > inputs.maxSpending
    /\ inputs.inflationRate > 0
    /\ Len(yearResults) >= 2
    /\ Target(yearResults[2]) = CeilingOf(2)
    /\ uncapped > CeilingOf(2)

\* C9: floor respected: when maxSpending = 0 or minSpending <= maxSpending every
\* year's withdrawal target is at least minSpending * (1 + inflationRate/100)^i, in
\* ConstantReal's years 2+ as well.
C9_FloorRespected ==
    (inputs.maxSpending = 0 \/ inputs.minSpending <= inputs.maxSpending)
        => \A k \in Recorded : Target(yearResults[k]) >= FloorOf(k)

C9_Witness ==
    /\ strategy = "ConstantReal"
    /\ inputs.minSpending > 0
    /\ inputs.inflationRate > 0
    /\ Len(yearResults) >= 3
    /\ Target(yearResults[3]) = FloorOf(3)
    /\ FloorOf(3) > FloorOf(1)

\* C10: the year-1 target is min(max(S, minSpending), maxSpending-or-unbounded) with
\* S = startingWithdrawal when it is > 0 and the strategy's default otherwise.
YearOneDefault ==
    CASE strategy = "ConstantReal" -> MulRate(inputs.startingPortfolio, <<45, 1000>>)
      [] strategy = "ConstantPercent" -> MulRate(inputs.startingPortfolio, <<4, 100>>)
      [] strategy = "VPW" ->
            LET pct == vpwPercentage(inputs.planningAge - inputs.retirementAge, 60)
            IN  MulRate(inputs.startingPortfolio, <<pct[1], pct[2] * 100>>)
      [] strategy = "Guardrails" -> MulRate(inputs.startingPortfolio, <<5, 100>>)
      [] strategy = "RMD" ->
            Round(inputs.startingPortfolio, lifeExpectancy(inputs.retirementAge))

YearOneExpected ==
    LET S == IF inputs.startingWithdrawal > 0 THEN inputs.startingWithdrawal
             ELSE YearOneDefault
        floored == Max(S, inputs.minSpending)
    IN  IF inputs.maxSpending > 0 THEN Min(floored, inputs.maxSpending) ELSE floored

C10_YearOneTarget ==
    yearResults # <<>> => Target(yearResults[1]) = YearOneExpected

C10_Witness ==
    /\ yearResults # <<>>
    /\ strategy = "Guardrails"
    /\ inputs.startingWithdrawal > inputs.maxSpending
    /\ inputs.maxSpending > inputs.minSpending
    /\ Target(yearResults[1]) = inputs.maxSpending

\* the floor, then the ceiling, of the year of record k applied to x
Clamped(x, k) ==
    LET floored == Max(x, FloorOf(k))
    IN  IF inputs.maxSpending > 0 THEN Min(floored, CeilingOf(k)) ELSE floored

\* C11: for ConstantPercent, VPW and RMD the startingWithdrawal override applies in
\* year 1 only: in every later year the target is the clamped strategy formula of that
\* year's portfolioStart (4% of it, vpwPercentage(planningAge - age)% of it, or it
\* divided by lifeExpectancy(age)), whatever startingWithdrawal is.
DynamicStrategies == {"ConstantPercent", "VPW", "RMD"}

DynamicFormula(rec) ==
    CASE strategy = "ConstantPercent" -> MulRate(rec.portfolioStart, <<4, 100>>)
      [] strategy = "VPW" ->
            LET pct == vpwPercentage(inputs.planningAge - rec.age, 60)
            IN  MulRate(rec.portfolioStart, <<pct[1], pct[2] * 100>>)
      [] strategy = "RMD" -> Round(rec.portfolioStart, lifeExpectancy(rec.age))

C11_OverrideYearOneOnly ==
    strategy \in DynamicStrategies =>
        \A k \in Recorded :
            k >= 2 => Target(yearResults[k]) = Clamped(DynamicFormula(yearResults[k]), k)

C11_Witness ==
    /\ strategy \in DynamicStrategies
    /\ inputs.startingWithdrawal > 0
    /\ inputs.minSpending = 0
    /\ Len(yearResults) >= 2
    /\ Target(yearResults[1]) = inputs.startingWithdrawal
    /\ Target(yearResults[2]) = DynamicFormula(yearResults[2])
    /\ Target(yearResults[2]) > 0
    /\ Target(yearResults[2]) # inputs.startingWithdrawal

\* C12: ConstantReal inflation indexing: baseWithdrawal of year i+1 equals
\* baseWithdrawal of year i times (1 + inflationRate/100), for any minSpending,
\* maxSpending and startingWithdrawal; with inflationRate = 0 it is the same every year.
C12_InflationIndexed ==
    strategy = "ConstantReal" =>
        \A k \in Recorded :
            k >= 2 =>
                /\ yearResults[k].baseWithdrawal =
                       MulRate(yearResults[k - 1].baseWithdrawal,
                               Frac(100 + inputs.inflationRate, 100))
                /\ inputs.inflationRate = 0 =>
                       yearResults[k].baseWithdrawal = yearResults[1].baseWithdrawal

C12_Witness ==
    /\ strategy = "ConstantReal"
    /\ inputs.inflationRate = 100
    /\ inputs.startingWithdrawal > inputs.maxSpending
    /\ inputs.maxSpending > 0
    /\ Len(yearResults) >= 3
    /\ yearResults[1].baseWithdrawal = inputs.maxSpending
    /\ yearResults[3].baseWithdrawal = 4 * inputs.maxSpending

\* C13: Guardrails adjustment rule: in every year where the adjustment is not skipped,
\* with currentRate = carried-in baseWithdrawal / portfolioStart * 100, baseWithdrawal
\* is multiplied by 0.90 if currentRate > 6.0, else by 1.10 if currentRate < 4.0 and
\* the portfolio is > 0, else left unchanged; it is then clamped, recorded, and
\* multiplied by (1 + inflationRate/100) to become next year's carried-in value.
GuardrailsSkipped(k) == k = 1 /\ inputs.startingWithdrawal > 0

GuardrailsCarriedIn(k) ==
    IF k = 1 THEN YearOneExpected
    ELSE MulRate(yearResults[k - 1].baseWithdrawal, Frac(100 + inputs.inflationRate, 100))

GuardrailsRule(w, portfolioStart) ==
    LET rate == RateOf(w, portfolioStart)
    IN  IF RateGt(rate, 6) THEN MulRate(w, <<90, 100>>)
        ELSE IF RateLt(rate, 4) /\ portfolioStart > 0 THEN MulRate(w, <<110, 100>>)
        ELSE w

C13_GuardrailsRule ==
    strategy = "Guardrails" =>
        /\ \A k \in Recorded :
              ~GuardrailsSkipped(k) =>
                  LET rec == yearResults[k]
                      w == GuardrailsCarriedIn(k)
                  IN  /\ rec.currentRate = RateOf(w, rec.portfolioStart)
                      /\ rec.baseWithdrawal = Clamped(GuardrailsRule(w, rec.portfolioStart), k)
        /\ (pc = "loop" /\ yearResults # <<>>)
              => withdrawal = GuardrailsCarriedIn(Len(yearResults) + 1)

C13_Witness ==
    /\ strategy = "Guardrails"
    /\ inputs.maxSpending = 0
    /\ \E k \in Recorded :
          /\ ~GuardrailsSkipped(k)
          /\ yearResults[k].portfolioStart > 0
          /\ RateGt(yearResults[k].currentRate, 6)
          /\ yearResults[k].baseWithdrawal = MulRate(GuardrailsCarriedIn(k), <<90, 100>>)
          /\ yearResults[k].baseWithdrawal < GuardrailsCarriedIn(k)

\* C14: Guardrails year-1 exemption: the adjustment is skipped exactly in year index 0
\* of a run whose startingWithdrawal > 0 (that year's baseWithdrawal is the clamped
\* startingWithdrawal even if its rate is above 6.0 or below 4.0); in every later
\* year, and in year 1 when startingWithdrawal <= 0, the adjustment rule is applied.
C14_YearOneExemption ==
    strategy = "Guardrails" =>
        \A k \in Recorded :
            yearResults[k].baseWithdrawal =
                IF k = 1 /\ inputs.startingWithdrawal > 0
                THEN Clamped(inputs.startingWithdrawal, 1)
                ELSE Clamped(GuardrailsRule(GuardrailsCarriedIn(k),
                                            yearResults[k].portfolioStart), k)

C14_Witness ==
    /\ strategy = "Guardrails"
    /\ inputs.startingWithdrawal > 0
    /\ inputs.maxSpending = 0
    /\ Len(yearResults) >= 2
    /\ RateGt(yearResults[1].currentRate, 6)
    /\ yearResults[1].baseWithdrawal = inputs.startingWithdrawal
    /\ RateGt(yearResults[2].currentRate, 6)
    /\ yearResults[2].baseWithdrawal < GuardrailsCarriedIn(2)

\* C15: Social Security schedule: for every strategy and year the Social Security
\* amount is 0 when age < ssStartAge and socialSecurity * (1 + inflationRate/100)^(age -
\* ssStartAge) when age >= ssStartAge, so a benefit that started before retirement is
\* already compounded in year 1.
SocialSecurityExpected(k) ==
    LET age == inputs.retirementAge + (k - 1)
    IN  IF age < inputs.ssStartAge THEN 0
        ELSE MulRate(inputs.socialSecurity,
                     Pow(Frac(100 + inputs.inflationRate, 100), age - inputs.ssStartAge))

C15_SocialSecuritySchedule ==
    \A k \in Recorded :
        /\ strategy = "ConstantReal" => yearResults[k].ssReceived = SocialSecurityExpected(k)
        /\ k % 5 # 0 => yearResults[k].withdrawal =
                            Max(0, Target(yearResults[k]) - SocialSecurityExpected(k))

C15_Witness ==
    /\ strategy = "ConstantReal"
    /\ inputs.socialSecurity > 0
    /\ inputs.ssStartAge < inputs.retirementAge
    /\ inputs.inflationRate = 100
    /\ Len(yearResults) >= 2
    /\ yearResults[1].ssReceived = 2 * inputs.socialSecurity
    /\ yearResults[2].ssReceived = 4 * inputs.socialSecurity

\* C16: net withdrawal: for every strategy and year i, withdrawal = max(0, target - ss)
\* + E_i with E_i = oneTimeExpense * (1 + inflationRate/100)^i when (i+1) mod 5 = 0 and
\* 0 otherwise; the clamp is applied to the target before the Social Security offset,
\* and Social Security in excess of the target neither reduces the one-time expense
\* nor adds money to the portfolio.
ExpenseExpected(k) ==
    IF k % 5 = 0
    THEN MulRate(inputs.oneTimeExpense, Pow(Frac(100 + inputs.inflationRate, 100), k - 1))
    ELSE 0

C16_NetWithdrawal ==
    \A k \in Recorded :
        LET rec == yearResults[k]
            ss == SocialSecurityExpected(k)
            E == ExpenseExpected(k)
        IN  /\ rec.withdrawal = Max(0, Target(rec) - ss) + E
            /\ inputs.maxSpending > 0 => rec.withdrawal - E <= Max(0, CeilingOf(k) - ss)
            /\ (inputs.maxSpending = 0 \/ inputs.minSpending <= inputs.maxSpending)
                  => rec.withdrawal - E >= Max(0, FloorOf(k) - ss)
            /\ ss >= Target(rec) =>
                  /\ rec.withdrawal = E
                  /\ rec.portfolioEnd = MulRate(Max(0, rec.portfolioStart - E),
                                                <<100 + rec.returnPct, 100>>)

C16_Witness ==
    /\ Len(yearResults) >= 5
    /\ inputs.oneTimeExpense > 0
    /\ SocialSecurityExpected(5) > Target(yearResults[5])
    /\ Target(yearResults[5]) > 0
    /\ yearResults[5].withdrawal = ExpenseExpected(5)
    /\ ExpenseExpected(5) > inputs.oneTimeExpense

\* the latest call of a table function on its own, and the one before it
LastLookup == lookups[Len(lookups)]

Looked(fn) == lookups # <<>> /\ LastLookup.fn = fn

LookedTwice(fn) == Len(lookups) = 2 /\ LastLookup.fn = fn

\* C17: lifeExpectancy(age) returns a value >= 2 for every integer age, so the RMD
\* strategy's portfolio / lifeExp never divides by zero or by a negative number.
C17_LifeExpectancyFloor ==
    Looked("lifeExpectancy") => LastLookup.ret >= 2

C17_Witness ==
    /\ Looked("lifeExpectancy")
    /\ LastLookup.args[1] > 98
    /\ 100 - LastLookup.args[1] < 2
    /\ LastLookup.ret = 2

\* C18: RMD life expectancy decreases with age: the lifeExp of a later year (a higher
\* age) is smaller than the lifeExp of every earlier year, so the RMD withdrawal rate
\* rmdWithdrawal / portfolioStart = 1 / lifeExp increases from year to year.
C18_LifeExpectancyDecreases ==
    (LookedTwice("lifeExpectancy") /\ lookups[1].args[1] < lookups[2].args[1])
        => lookups[2].ret < lookups[1].ret

\* C19: vpwPercentage is monotone in years remaining (fewer years, no smaller
\* percentage); hence in any VPW run the recorded vpwPct never decreases from one year
\* to the next.
C19_VpwPctNeverDecreases ==
    strategy = "VPW" =>
        \A k \in Recorded :
            k >= 2 => yearResults[k].vpwPct[1] * yearResults[k - 1].vpwPct[2]
                          >= yearResults[k - 1].vpwPct[1] * yearResults[k].vpwPct[2]

\* C20: percentile(sorted, p) returns 0 for an empty sequence and otherwise
\* sorted[lower] * (1 - weight) + sorted[upper] * weight with index = p/100 * (n - 1),
\* lower = floor(index), upper = ceil(index), weight = index - lower; the 50th
\* percentile of 1..10 is 5.5, and a one-element sequence returns its element for
\* every p.
Interpolated(sorted, p) ==
    LET n == Len(sorted)
        \* the position, in hundredths of a step
        q == p * (n - 1)
        L == CHOOSE l \in 0..(n - 1) : 100 * l <= q /\ (q < 100 * (l + 1) \/ l = n - 1)
        U == IF q = 100 * L THEN L ELSE L + 1
    IN  sorted[L + 1] * (100 * (L + 1) - q) + sorted[U + 1] * (q - 100 * L)

C20_Percentile ==
    Looked("percentile") =>
        LET sorted == LastLookup.args[1]
            p == LastLookup.args[2]
            ret == LastLookup.ret
        IN  /\ sorted = <<>> => ret[1] = 0 /\ ret[2] # 0
            /\ (sorted # <<>> /\ p >= 0 /\ p <= 100)
                  => ret[2] # 0 /\ ret[1] * 100 = Interpolated(sorted, p) * ret[2]
            /\ Len(sorted) = 1 => ret[2] # 0 /\ ret[1] = sorted[1] * ret[2]
            /\ (sorted = [k \in 1..10 |-> k] /\ p = 50) => ret[1] * 10 = 55 * ret[2]

C20_Witness ==
    /\ Looked("percentile")
    /\ Len(LastLookup.args[1]) = 3
    /\ LastLookup.args[1][1] < LastLookup.args[1][2]
    /\ LastLookup.args[1][2] < LastLookup.args[1][3]
    /\ LastLookup.args[2] = 75
    /\ LastLookup.ret[1] * 2 = (LastLookup.args[1][2] + LastLookup.args[1][3]) * LastLookup.ret[2]

\* C22: inputs are read-only: no step of a strategy run (any of the five, deterministic
\* or stochastic, ruined or not) changes any field of the SimulationInputs value it was
\* given, so the inputs after the run equal the inputs before it.
C22_InputsKept == inputs' = inputs

C22_InputsReadOnly == [][C22_InputsKept]_vars

C22_Witness ==
    /\ Done
    /\ ~deterministic
    /\ strategy = "Guardrails"
    /\ result.ruined
    /\ Len(result.years) >= 5
    /\ inputs.startingWithdrawal > 0

\* C24: every numeric field of every YearRecord is a finite number; in particular
\* Guardrails' currentRate = baseWithdrawal / portfolioStart * 100 is finite in every
\* year, including for startingPortfolio = 0 and after the portfolio is depleted.
C24_RecordsFinite ==
    \A k \in Recorded :
        /\ strategy = "Guardrails" => yearResults[k].currentRate[2] # 0
        /\ strategy = "VPW" => yearResults[k].vpwPct[2] # 0

\* C25: ConstantPercent never depletes the portfolio: for startingPortfolio > 0,
\* minSpending = 0, oneTimeExpense = 0, startingWithdrawal = 0, socialSecurity >= 0 and
\* every yearly return > -100%, no year has portfolioEnd <= 0 and ruined stays false.
PercentOnly ==
    /\ strategy = "ConstantPercent"
    /\ inputs.startingPortfolio > 0
    /\ inputs.minSpending = 0
    /\ inputs.oneTimeExpense = 0
    /\ inputs.startingWithdrawal = 0
    /\ inputs.socialSecurity >= 0
    /\ \A k \in Recorded : yearResults[k].returnPct > -100

C25_ConstantPercentNeverDepletes ==
    PercentOnly =>
        /\ \A k \in Recorded : yearResults[k].portfolioEnd > 0
        /\ ~ruined
        /\ Done => ~result.ruined /\ result.ruinAge = null

C25_Witness ==
    /\ PercentOnly
    /\ Done
    /\ ~deterministic
    /\ inputs.socialSecurity > 0
    /\ inputs.maxSpending > 0
    /\ Len(result.years) >= 5
    /\ result.finalBalance > 0
    /\ result.finalBalance < inputs.startingPortfolio

\* C26: year-stepping recurrence: portfolioStart of year 0 is startingPortfolio,
\* portfolioStart of year i+1 is portfolioEnd of year i, each portfolioEnd =
\* max(0, portfolioStart - withdrawal) * (1 + return), finalBalance is the last year's
\* portfolioEnd and totalWithdrawals is the sum of all withdrawal fields.
RECURSIVE WithdrawnUpTo(_, _)
WithdrawnUpTo(ys, k) == IF k = 0 THEN 0 ELSE ys[k].withdrawal + WithdrawnUpTo(ys, k - 1)

C26_Recurrence ==
    /\ \A k \in Recorded :
          LET rec == yearResults[k]
          IN  /\ rec.portfolioStart = IF k = 1 THEN inputs.startingPortfolio
                                      ELSE yearResults[k - 1].portfolioEnd
              /\ rec.portfolioEnd = MulRate(Max(0, rec.portfolioStart - rec.withdrawal),
                                            <<100 + rec.returnPct, 100>>)
    /\ Done =>
          /\ result.finalBalance = IF result.years = <<>> THEN inputs.startingPortfolio
                                   ELSE result.years[Len(result.years)].portfolioEnd
          /\ result.totalWithdrawals = WithdrawnUpTo(result.years, Len(result.years))

C26_Witness ==
    /\ Done
    /\ Len(result.years) >= 5
    /\ result.totalWithdrawals > inputs.startingPortfolio
    /\ \E k \in 2..Len(result.years) :
          /\ result.years[k].portfolioStart > 0
          /\ result.years[k].withdrawal > result.years[k].portfolioStart
          /\ result.years[k].returnPct < 0
          /\ result.years[k].portfolioEnd = 0

\* C27: result-level ruin agrees with the records: result.ruined is true if and only
\* if some YearRecord has portfolioEnd <= 0, ruinAge is the age of the first such
\* record and is none exactly when ruined is false; a year whose net withdrawal
\* exceeds its portfolioStart ends with portfolioEnd = 0.
DepletedYears(ys) == {k \in 1..Len(ys) : ys[k].portfolioEnd <= 0}

FirstDepleted(ys) == CHOOSE k \in DepletedYears(ys) : \A j \in DepletedYears(ys) : k <= j

C27_RuinAgreesWithRecords ==
    /\ ruined <=> DepletedYears(yearResults) # {}
    /\ ruined => ruinAge = yearResults[FirstDepleted(yearResults)].age
    /\ ~ruined <=> ruinAge = null
    /\ Done =>
          /\ result.ruined <=> DepletedYears(result.years) # {}
          /\ result.ruined => result.ruinAge = result.years[FirstDepleted(result.years)].age
          /\ ~result.ruined <=> result.ruinAge = null
    /\ \A k \in Recorded :
          yearResults[k].withdrawal > yearResults[k].portfolioStart
              => yearResults[k].portfolioEnd = 0

C27_Witness ==
    /\ Done
    /\ result.ruined
    /\ Len(result.years) >= 5
    /\ FirstDepleted(result.years) = 1
    /\ result.years[1].portfolioStart > 0
    /\ result.years[1].withdrawal < result.years[1].portfolioStart
    /\ result.ruinAge = inputs.retirementAge

\* C28: depletion is absorbing: with oneTimeExpense >= 0, once a year ends with
\* portfolioEnd = 0 every later year of the run has portfolioStart = 0 and
\* portfolioEnd = 0, whatever returns are drawn, and finalBalance is 0.
C28_DepletionAbsorbing ==
    inputs.oneTimeExpense >= 0 =>
        /\ \A j \in Recorded : \A k \in Recorded :
              (j < k /\ yearResults[j].portfolioEnd = 0)
                  => /\ yearResults[k].portfolioStart = 0
                     /\ yearResults[k].portfolioEnd = 0
        /\ (Done /\ \E j \in 1..Len(result.years) : result.years[j].portfolioEnd = 0)
              => result.finalBalance = 0

C28_Witness ==
    /\ Done
    /\ ~deterministic
    /\ inputs.oneTimeExpense > 0
    /\ inputs.socialSecurity > 0
    /\ Len(result.years) >= 5
    /\ result.years[1].portfolioStart > 0
    /\ result.years[2].portfolioEnd = 0
    /\ SocialSecurityExpected(4) > Target(result.years[4])
    /\ result.years[4].returnPct # result.years[3].returnPct
    /\ result.finalBalance = 0

\* C30: for a non-empty ascending sequence and any p in [0, 100], percentile(sorted, p)
\* reads only indices inside the sequence, lies between sorted[0] and sorted[n-1],
\* equals sorted[0] at p = 0 and sorted[n-1] at p = 100, and is non-decreasing in p.
InRange(call) == call.args[1] # <<>> /\ call.args[2] >= 0 /\ call.args[2] <= 100

C30_PercentileBounds ==
    Looked("percentile") =>
        /\ \A c \in 1..Len(lookups) :
              InRange(lookups[c]) =>
                  LET sorted == lookups[c].args[1]
                      p == lookups[c].args[2]
                      ret == lookups[c].ret
                      n == Len(sorted)
                  IN  /\ ret # NaN /\ ret[2] > 0
                      /\ sorted[1] * ret[2] <= ret[1]
                      /\ ret[1] <= sorted[n] * ret[2]
                      /\ p = 0 => ret[1] = sorted[1] * ret[2]
                      /\ p = 100 => ret[1] = sorted[n] * ret[2]
        /\ (/\ Len(lookups) = 2
            /\ InRange(lookups[1])
            /\ InRange(lookups[2])
            /\ lookups[1].args[1] = lookups[2].args[1]
            /\ lookups[1].args[2] <= lookups[2].args[2])
              => lookups[1].ret[1] * lookups[2].ret[2] <= lookups[2].ret[1] * lookups[1].ret[2]

C30_Witness ==
    /\ LookedTwice("percentile")
    /\ InRange(lookups[1])
    /\ InRange(lookups[2])
    /\ lookups[1].args[1] = lookups[2].args[1]
    /\ Len(lookups[1].args[1]) = 3
    /\ lookups[1].args[1][1] < lookups[1].args[1][2]
    /\ lookups[1].args[1][2] < lookups[1].args[1][3]
    /\ lookups[1].args[2] = 25
    /\ lookups[2].args[2] = 75
    /\ lookups[1].args[1][1] * lookups[1].ret[2] < lookups[1].ret[1]
    /\ lookups[1].ret[1] * lookups[2].ret[2] < lookups[2].ret[1] * lookups[1].ret[2]
    /\ lookups[2].ret[1] < lookups[2].args[1][3] * lookups[2].ret[2]

\* the second of two compared calls has returned, and differed from the first in what
Compared == Done /\ calls = 2 /\ variation.kind # "none"

\* both calls saw the same return in every year
SameReturns ==
    /\ Len(result.years) = Len(previous.years)
    /\ \A k \in 1..Len(result.years) : result.years[k].returnPct = previous.years[k].returnPct

C23_Normalised ==
    (Compared /\ variation.kind \in NormalisedFields /\ SameReturns) => result = previous

\* C29: with volatility = 0 a run with deterministic = false returns the same
\* SimulationResult as the run with deterministic = true, whatever deviates are drawn.
C29_ZeroVolatility ==
    (Compared /\ variation.kind = "deterministic") => result = previous

C29_Witness ==
    /\ Compared
    /\ variation.kind = "deterministic"
    /\ ~variation.deterministic
    /\ deterministic
    /\ inputs.volatility = 0
    /\ entropy = MaxYears
    /\ Len(result.years) = MaxYears
    /\ result = previous
    /\ result.finalBalance > inputs.startingPortfolio

====
